---------------------------- MODULE Spec2Model ----------------------------
(***************************************************************************)
(* Control Flow Simplification (src/pass/cfs.rs) as a state machine.       *)
(*                                                                         *)
(* A function is a layout of blocks 1..n (block 1 is the entry), each with *)
(* a terminator, at most one phi at its head, one user of that phi's       *)
(* result, and one ordinary instruction whose result is the value <<"d",b>>.*)
(* Values are pairs: <<"c",i>> a boolean argument, <<"a",0>> a data        *)
(* argument, <<"d",b>> the result of block b's ordinary instruction,       *)
(* <<"phi",b>> the result of block b's phi, <<"mux",k>> the result of the  *)
(* k-th multiplexer the pass inserted.                                     *)
(***************************************************************************)
EXTENDS Integers, Sequences, FiniteSets, TLC

VARIABLES
    term,        \* block -> terminator [op, args, blocks]           (read only)
    phis,        \* block -> phi [blocks, args], for the blocks that hold one
    users,       \* block -> operand of the instruction using <<"phi",block>>
    muxes,       \* the inserted array+mux pairs [arr, sel, at], by insertion
    phis0,       \* the phis of the function as the pass received it
    numbers,     \* BlockNumbering.numbers
    order,       \* BlockNumbering.order
    done,        \* BlockNumbering::new, local done
    pending,     \* BlockNumbering::new, local pending
    phi_ways,    \* run_on_cfg, local phi_ways: <<block of the phi, ways>>
    discs,       \* the value build_discriminator returned per phi_ways entry
    elide_phis,  \* run_on_cfg, local elide_phis: <<block of the phi, with>>
    atScan,      \* [phis, users, muxes] as the loop of lines 77-86 read them
    ei,          \* position of the loop of lines 87-97 in elide_phis
    modified,    \* run_on_cfg, local modified
    pc           \* "number", "discriminate", "elide", "done", "panic"

vars == <<term, phis, users, muxes, phis0, numbers, order, done, pending,
          phi_ways, discs, elide_phis, atScan, ei, modified, pc>>

-----------------------------------------------------------------------------
(* Bounds of the generated functions.                                      *)

NumBlocks == 3
NumBlocksWide == 4
NumBlocksBN == 5
NumConds == 2
MaxPhis == 3

-----------------------------------------------------------------------------
(* The IR the pass reads.                                                  *)

Blocks == DOMAIN term

Entry == 1

Range(s) == {s[i] : i \in DOMAIN s}

IsTerminator(op) == op \in {"Br", "BrCond", "Wait", "WaitTime", "Halt"}

Succ(t, b) == Range(t[b].blocks)

Pred(t, b) == {p \in DOMAIN t : b \in Succ(t, p)}

RECURSIVE ReachAvoid(_, _, _)
ReachAvoid(t, S, avoid) ==
    LET S2 == S \cup {x \in UNION {Succ(t, b) : b \in S} : x # avoid}
    IN  IF S2 = S THEN S ELSE ReachAvoid(t, S2, avoid)

Reachable(t) == ReachAvoid(t, {Entry}, 0)

Dominators(t, b) ==
    {d \in DOMAIN t : d = b \/ d = Entry \/ b \notin ReachAvoid(t, {Entry}, d)}

-----------------------------------------------------------------------------
(* The functions the pass is run on.                                       *)

TermMenu(T, C) ==
    {[op |-> "Halt", args |-> <<>>, blocks |-> <<>>]}
    \cup {[op |-> o, args |-> <<>>, blocks |-> <<t>>] : o \in {"Br", "Wait"}, t \in T}
    \cup {[op |-> "BrCond", args |-> << <<"c", c>> >>, blocks |-> <<t0, t1>>] :
            c \in C, t0 \in T, t1 \in T}

SuccMenu(T) ==
    {[op |-> "Halt", args |-> <<>>, blocks |-> <<>>]}
    \cup {[op |-> "Br", args |-> <<>>, blocks |-> <<t>>] : t \in T}
    \cup {m \in {[op |-> "BrCond", args |-> << <<"c", 1>> >>, blocks |-> <<t0, t1>>] :
                    t0 \in T, t1 \in T} : m.blocks[1] < m.blocks[2]}

(* Every layout of n blocks whose block b ends in a terminator of Menu(b, n). *)
RECURSIVE Layouts(_, _, _)
Layouts(Menu(_, _), b, n) ==
    IF b = 0 THEN {<<>>}
    ELSE {Append(s, m) : s \in Layouts(Menu, b - 1, n), m \in Menu(b, n)}

BNMenu(b, n) == SuccMenu({Entry} \cup ((b + 1)..n))

-----------------------------------------------------------------------------
(* BlockNumbering::new                                                     *)

NumberingStart ==
    /\ numbers = [b \in {Entry} |-> 0]
    /\ order = <<>>
    /\ done = {}
    /\ pending = {Entry}

(* lines 297-300: numbers.entry(bb).or_insert(numbers[&block] + 1)         *)
NumbersOverwrite(nums, block, succs) ==
    [b \in DOMAIN nums \cup succs |->
        IF b \in succs THEN nums[block] + 1 ELSE nums[b]]

NumbersAfter(nums, block, succs) ==
    [b \in DOMAIN nums \cup succs |->
        IF b \in DOMAIN nums THEN nums[b] ELSE nums[block] + 1]

(* One iteration of the while loop of lines 284-302, for any block the     *)
(* HashSet iterator may yield first.                                       *)
BNStep ==
    /\ pc = "number"
    /\ \E block \in pending :
        LET t == term[block]
        IN  /\ done' = done \cup {block}
            /\ order' = Append(order, block)
            /\ IF IsTerminator(t.op)
               THEN /\ pending' = (pending \ {block})
                                   \cup {bb \in Range(t.blocks) : bb \notin done'}
                    /\ numbers' = NumbersAfter(numbers, block, Range(t.blocks))
               ELSE /\ pending' = pending \ {block}
                    /\ numbers' = numbers
    /\ UNCHANGED <<term, phis, users, muxes, phis0, phi_ways, discs,
                   elide_phis, atScan, ei, modified, pc>>

InitBN ==
    /\ term \in Layouts(BNMenu, NumBlocksBN, NumBlocksBN)
    /\ Reachable(term) = DOMAIN term
    /\ phis = <<>> /\ users = <<>> /\ muxes = <<>> /\ phis0 = <<>>
    /\ NumberingStart
    /\ phi_ways = <<>> /\ discs = <<>> /\ elide_phis = <<>> /\ atScan = <<>> /\ ei = 1
    /\ modified = FALSE
    /\ pc = "number"

SpecBN == InitBN /\ [][BNStep]_vars

-----------------------------------------------------------------------------
(* justify_edge, prepare_phi                                               *)

Pos(v) == [pol |-> "Pos", v |-> v]
Neg(v) == [pol |-> "Neg", v |-> v]

RECURSIVE SortedSeq(_)
SortedSeq(S) ==
    IF S = {} THEN <<>>
    ELSE LET m == CHOOSE x \in S : \A y \in S : x <= y
         IN  <<m>> \o SortedSeq(S \ {m})

RECURSIVE Flatten(_)
Flatten(ss) == IF ss = <<>> THEN <<>> ELSE Head(ss) \o Flatten(Tail(ss))

(* lines 156-166: the match on the terminator of `from`; Some(c) is <<c>>,  *)
(* None is <<>>.                                                           *)
Weird(t, from, to) ==
    LET data == t[from]
    IN  ~ \/ data.op \in {"Br", "Wait", "WaitTime"}
          \/ data.op = "BrCond" /\ data.blocks[1] = to
          \/ data.op = "BrCond" /\ data.blocks[2] = to

EdgeCond(t, from, to) ==
    LET data == t[from]
    IN  IF data.op \in {"Br", "Wait", "WaitTime"} THEN <<>>
        ELSE IF data.blocks[1] = to THEN <<Neg(data.args[1])>>
        ELSE <<Pos(data.args[1])>>

(* lines 137-190. The result is [ok, routes]; ok is FALSE when the          *)
(* unreachable!() of line 165 is hit somewhere in the search.              *)
RECURSIVE JustifyEdge(_, _, _, _, _)
JustifyEdge(t, from, to, target, seen) ==
    IF Weird(t, from, to) THEN [ok |-> FALSE, routes |-> <<>>]
    ELSE
    LET cond == EdgeCond(t, from, to)
    IN  IF from = target THEN [ok |-> TRUE, routes |-> <<cond>>]
        ELSE
        LET seen2 == Append(seen, to)
            ps == SortedSeq({bb \in Pred(t, from) : bb \notin Range(seen2)})
            subs == [i \in DOMAIN ps |-> JustifyEdge(t, ps[i], from, target, seen2)]
        IN  [ok |-> \A i \in DOMAIN ps : subs[i].ok,
             routes |-> Flatten([i \in DOMAIN ps |->
                          [j \in DOMAIN subs[i].routes |-> subs[i].routes[j] \o cond]])]

(* lines 105-133 *)
PreparePhi(t, block, data, immediate_dominator) ==
    LET per == [i \in DOMAIN data.blocks |->
                  JustifyEdge(t, data.blocks[i], block, immediate_dominator, <<>>)]
    IN  [ok |-> \A i \in DOMAIN per : per[i].ok,
         ways |-> Flatten([i \in DOMAIN per |->
                    [j \in DOMAIN per[i].routes |->
                        [v |-> data.args[i], conds |-> per[i].routes[j]]]])]

(* lines 39-48: the proper dominator with the largest block number, 0 for  *)
(* None.                                                                   *)
ImmDom(t, bn, block) ==
    LET cands == Dominators(t, block) \ {block}
    IN  IF cands = {} THEN 0
        ELSE CHOOSE bb \in cands : \A o \in cands : bn[o] <= bn[bb]

-----------------------------------------------------------------------------
(* build_discriminator                                                     *)

RECURSIVE SumSeq(_)
SumSeq(q) == IF q = <<>> THEN 0 ELSE Head(q) + SumSeq(Tail(q))

Abs(x) == IF x < 0 THEN -x ELSE x

(* lines 211-222: table[v] = (occurrences of v, Pos occurrences - Neg ones) *)
TableKeys(ways) == {c.v : c \in UNION {Range(ways[i].conds) : i \in DOMAIN ways}}

TableUses(ways, v) ==
    SumSeq([i \in DOMAIN ways |->
              Len(SelectSeq(ways[i].conds, LAMBDA c : c.v = v))])

TableTick(ways, v) ==
    SumSeq([i \in DOMAIN ways |->
              Len(SelectSeq(ways[i].conds, LAMBDA c : c = Pos(v)))
              - Len(SelectSeq(ways[i].conds, LAMBDA c : c = Neg(v)))])

(* lines 223-227: the key (n, -|tick|), compared as a tuple *)
KeyLeq(ways, u, v) ==
    LET nu == TableUses(ways, u)
        nv == TableUses(ways, v)
    IN  \/ nu < nv
        \/ nu = nv /\ - Abs(TableTick(ways, u)) <= - Abs(TableTick(ways, v))

(* max_by_key over a HashMap's iteration order: any entry with a maximal key *)
Discriminators(ways) ==
    {v \in TableKeys(ways) : \A u \in TableKeys(ways) : KeyLeq(ways, u, v)}

(* lines 235-244 *)
MuxWays(ways, cond) ==
    LET kept == SelectSeq(ways, LAMBDA w : cond \in Range(w.conds))
    IN  [i \in DOMAIN kept |->
            [v |-> kept[i].v,
             conds |-> SelectSeq(kept[i].conds, LAMBDA c : c # cond)]]

(* lines 198-254. ms is the sequence of array+mux pairs inserted so far and *)
(* at the block of the phi they are inserted before. The result is the set  *)
(* of outcomes over the hash orders: [ok, v, ms], ok FALSE for the expect   *)
(* of line 227 failing.                                                    *)
RECURSIVE BuildDiscriminator(_, _, _)
BuildDiscriminator(ways, ms, at) ==
    IF Len(ways) = 1 THEN {[ok |-> TRUE, v |-> ways[1].v, ms |-> ms]}
    ELSE IF TableKeys(ways) = {} THEN {[ok |-> FALSE, v |-> <<"none", 0>>, ms |-> ms]}
    ELSE UNION {
        UNION {
            IF ~f.ok THEN {f}
            ELSE {IF ~tr.ok THEN tr
                  ELSE [ok |-> TRUE,
                        v |-> <<"mux", Len(tr.ms) + 1>>,
                        ms |-> Append(tr.ms, [arr |-> <<f.v, tr.v>>, sel |-> disc, at |-> at])]
                  : tr \in BuildDiscriminator(MuxWays(ways, Pos(disc)), f.ms, at)}
            : f \in BuildDiscriminator(MuxWays(ways, Neg(disc)), ms, at)}
        : disc \in Discriminators(ways)}

-----------------------------------------------------------------------------
(* maybe_elide_phi and the IR's mutation interface                         *)

MaybeElidePhiAny(data) == <<data.args[1]>>

(* lines 258-265: Some(v) is <<v>>, None is <<>> *)
MaybeElidePhi(data) ==
    LET set == Range(data.args)
    IN  IF Cardinality(set) = 1 THEN <<CHOOSE x \in set : TRUE>> ELSE <<>>

(* InstData::replace_value on one phi *)
ReplaceValue(args, old, new) ==
    [i \in DOMAIN args |-> IF args[i] = old THEN new ELSE args[i]]

(* lines 68-70 *)
RECURSIVE ReplaceCovered(_, _, _)
ReplaceCovered(args, ways, disc) ==
    IF ways = <<>> THEN args
    ELSE ReplaceCovered(ReplaceValue(args, Head(ways).v, disc), Tail(ways), disc)

(* DataFlowGraph::has_uses, over the instructions left in the function *)
HasUses(ps, us, ms, v) ==
    \/ \E b \in DOMAIN ps : v \in Range(ps[b].args)
    \/ \E b \in DOMAIN us : us[b] = v
    \/ \E k \in DOMAIN ms : v \in Range(ms[k].arr) \/ ms[k].sel = v

-----------------------------------------------------------------------------
(* run_on_cfg                                                              *)

(* lines 37-56 *)
PhiWays(t, ps, bn) ==
    LET bs == SortedSeq({b \in DOMAIN ps : ImmDom(t, bn, b) # 0})
    IN  [i \in DOMAIN bs |->
            [inst |-> bs[i],
             res |-> PreparePhi(t, bs[i], ps[bs[i]], ImmDom(t, bn, bs[i]))]]

CollectPhis ==
    /\ pc = "number"
    /\ pending = {}
    /\ LET pw == PhiWays(term, phis, numbers)
       IN  /\ phi_ways' = [i \in DOMAIN pw |-> <<pw[i].inst, pw[i].res.ways>>]
           /\ pc' = IF \A i \in DOMAIN pw : pw[i].res.ok THEN "discriminate" ELSE "panic"
    /\ UNCHANGED <<term, phis, users, muxes, phis0, numbers, order, done, pending,
                   discs, elide_phis, atScan, ei, modified>>

(* lines 61-72, one iteration *)
Discriminate ==
    /\ pc = "discriminate"
    /\ Len(discs) < Len(phi_ways)
    /\ LET inst == phi_ways[Len(discs) + 1][1]
           ways == phi_ways[Len(discs) + 1][2]
       IN  \E out \in BuildDiscriminator(ways, muxes, inst) :
            /\ out.ok
            /\ muxes' = out.ms
            /\ discs' = Append(discs, out.v)
            /\ phis' = [phis EXCEPT ![inst].args = ReplaceCovered(@, ways, out.v)]
    /\ modified' = TRUE
    /\ UNCHANGED <<term, users, phis0, numbers, order, done, pending, phi_ways,
                   elide_phis, atScan, ei, pc>>

(* lines 61-67 when build_discriminator panics *)
DiscriminatePanic ==
    /\ pc = "discriminate"
    /\ Len(discs) < Len(phi_ways)
    /\ LET inst == phi_ways[Len(discs) + 1][1]
           ways == phi_ways[Len(discs) + 1][2]
       IN  \E out \in BuildDiscriminator(ways, muxes, inst) :
            /\ ~out.ok
            /\ muxes' = out.ms
    /\ pc' = "panic"
    /\ UNCHANGED <<term, phis, users, phis0, numbers, order, done, pending, phi_ways,
                   discs, elide_phis, atScan, ei, modified>>

(* lines 76-86 *)
ElidePhis(ps) ==
    LET bs == SortedSeq({b \in DOMAIN ps : MaybeElidePhi(ps[b]) # <<>>})
    IN  [i \in DOMAIN bs |-> <<bs[i], MaybeElidePhi(ps[bs[i]])[1]>>]

ScanElide ==
    /\ pc = "discriminate"
    /\ Len(discs) = Len(phi_ways)
    /\ elide_phis' = ElidePhis(phis)
    /\ atScan' = [phis |-> phis, users |-> users, muxes |-> muxes]
    /\ ei' = 1
    /\ pc' = "elide"
    /\ UNCHANGED <<term, phis, users, muxes, phis0, numbers, order, done, pending,
                   phi_ways, discs, modified>>

(* DataFlowGraph::replace_use over the whole function *)
ReplaceUsePhis(ps, old, new) ==
    [b \in DOMAIN ps |-> [ps[b] EXCEPT !.args = ReplaceValue(@, old, new)]]

ReplaceUseUsers(us, old, new) ==
    [b \in DOMAIN us |-> IF us[b] = old THEN new ELSE us[b]]

ReplaceUseMuxes(ms, old, new) ==
    [k \in DOMAIN ms |-> [ms[k] EXCEPT !.arr = ReplaceValue(@, old, new),
                                        !.sel = IF @ = old THEN new ELSE @]]

(* UnitBuilder::prune_if_unused *)
PruneIfUnused(ps, us, ms, inst) ==
    IF HasUses(ps, us, ms, <<"phi", inst>>) THEN ps
    ELSE [b \in DOMAIN ps \ {inst} |-> ps[b]]

(* lines 87-97, one iteration *)
Elide ==
    /\ pc = "elide"
    /\ ei <= Len(elide_phis)
    /\ LET inst == elide_phis[ei][1]
           with == elide_phis[ei][2]
           inst_value == <<"phi", inst>>
           ps == ReplaceUsePhis(phis, inst_value, with)
       IN  /\ users' = ReplaceUseUsers(users, inst_value, with)
           /\ muxes' = ReplaceUseMuxes(muxes, inst_value, with)
           /\ phis' = PruneIfUnused(ps, users', muxes', inst)
    /\ modified' = TRUE
    /\ ei' = ei + 1
    /\ UNCHANGED <<term, phis0, numbers, order, done, pending, phi_ways, discs,
                   elide_phis, atScan, pc>>

(* line 99 *)
Return ==
    /\ pc = "elide"
    /\ ei > Len(elide_phis)
    /\ pc' = "done"
    /\ UNCHANGED <<term, phis, users, muxes, phis0, numbers, order, done, pending,
                   phi_ways, discs, elide_phis, atScan, ei, modified>>

-----------------------------------------------------------------------------
(* The inputs: every block reachable, no phi in the entry block, every phi  *)
(* with one operand per predecessor, each operand available at the end of   *)
(* its predecessor.                                                        *)

SmallMenu(b, n) == {m \in TermMenu(2..n, 1..NumConds) : m.op # "Wait"}

WideMenu(b, n) ==
    IF b = n THEN {[op |-> "Halt", args |-> <<>>, blocks |-> <<>>]}
    ELSE TermMenu(2..n, 1..NumConds)

(* The operand of a phi of block b for the edge from p: the data argument,  *)
(* the value block p computes, or the result of p's own phi.               *)
Operand(PB, b, p, style) ==
    CASE style = "same" -> <<"a", 0>>
      [] style = "own" -> <<"d", p>>
      [] style = "chain" -> IF p \in PB \ {b} THEN <<"phi", p>> ELSE <<"a", 0>>

PhiMenu(t, PB, b) ==
    LET bbs == SortedSeq(Pred(t, b))
    IN  {[blocks |-> bbs, args |-> [i \in DOMAIN bbs |-> Operand(PB, b, bbs[i], style)]] :
            style \in {"same", "own", "chain"}}

PhiConfigs(t) ==
    UNION {[PB -> UNION {PhiMenu(t, PB, b) : b \in PB}] :
            PB \in {S \in SUBSET {b \in DOMAIN t \ {Entry} : Pred(t, b) # {}} :
                        Cardinality(S) <= MaxPhis}}

WellFormedPhis(t, ps) ==
    \A b \in DOMAIN ps : ps[b] \in PhiMenu(t, DOMAIN ps, b)

StraightMenu(b, n) == {m \in TermMenu(2..n, {}) : m.op # "Wait"}

OwnPhi(t, b) ==
    LET bbs == SortedSeq(Pred(t, b))
    IN  [blocks |-> bbs, args |-> [i \in DOMAIN bbs |-> <<"d", bbs[i]>>]]

RunStart ==
    /\ Reachable(term) = DOMAIN term
    /\ phis0 = phis
    /\ users = [b \in DOMAIN phis |-> <<"phi", b>>]
    /\ muxes = <<>>
    /\ NumberingStart
    /\ phi_ways = <<>> /\ discs = <<>> /\ elide_phis = <<>> /\ atScan = <<>> /\ ei = 1
    /\ modified = FALSE
    /\ pc = "number"

InitSmall ==
    /\ term \in Layouts(SmallMenu, NumBlocks, NumBlocks)
    /\ phis \in PhiConfigs(term)
    /\ WellFormedPhis(term, phis)
    /\ RunStart

InitWide ==
    /\ term \in Layouts(WideMenu, NumBlocksWide, NumBlocksWide)
    /\ Pred(term, NumBlocksWide) # {}
    /\ phis = [b \in {NumBlocksWide} |-> OwnPhi(term, b)]
    /\ RunStart

InitStraight ==
    /\ term \in Layouts(StraightMenu, NumBlocksWide, NumBlocksWide)
    /\ phis \in PhiConfigs(term)
    /\ WellFormedPhis(term, phis)
    /\ RunStart

Init == InitSmall \/ InitWide \/ InitStraight

Next ==
    \/ BNStep
    \/ CollectPhis
    \/ Discriminate
    \/ DiscriminatePanic
    \/ ScanElide
    \/ Elide
    \/ Return

Spec == Init /\ [][Next]_vars

-----------------------------------------------------------------------------
(* Properties.                                                             *)

CondValues == {<<"c", i>> : i \in 1..NumConds}

Assignments == [CondValues -> BOOLEAN]

Satisfies(asg, conds) ==
    \A c \in Range(conds) : asg[c.v] = (c.pol = "Pos")

(* The value of v when the booleans are as in asg: a mux takes element 0 of *)
(* its array (arr[1]) when its selector is false, element 1 (arr[2]) when   *)
(* it is true.                                                             *)
RECURSIVE Eval(_, _, _)
Eval(v, asg, ms) ==
    IF v[1] = "mux"
    THEN Eval(ms[v[2]].arr[IF asg[ms[v[2]].sel] THEN 2 ELSE 1], asg, ms)
    ELSE v

(* C1: for every phi processed by the loop of lines 61-72 and every way     *)
(* (v, conds) recorded for it, the value build_discriminator returned      *)
(* evaluates to v under every assignment that satisfies conds.             *)
C1_DiscriminatorSound ==
    pc = "discriminate" =>
        \A i \in DOMAIN discs :
            \A w \in Range(phi_ways[i][2]) :
                \A asg \in Assignments :
                    Satisfies(asg, w.conds) => Eval(discs[i], asg, muxes) = w.v

(* C2: the run never reaches the unreachable!() of line 165 or the expect   *)
(* of line 227, on functions with or without loops.                        *)
C2_NoFatalError == pc # "panic"

IRChanged ==
    \/ phis # phis0
    \/ muxes # <<>>
    \/ users # [b \in DOMAIN phis0 |-> <<"phi", b>>]

(* C3: the boolean run_on_cfg returns is true exactly when the run changed  *)
(* the function.                                                           *)
C3_ReturnsChanged == pc = "done" => (modified <=> IRChanged)

Trivial(data) == Cardinality(Range(data.args)) = 1

TheValue(data) == CHOOSE x \in Range(data.args) : TRUE

(* Every operand slot left in the function that held `old` when phase B     *)
(* scanned holds `new` now.                                                *)
SlotsNow(old, new) ==
    /\ \A b \in DOMAIN users : atScan.users[b] = old => users[b] = new
    /\ \A k \in DOMAIN muxes : \A j \in 1..2 :
          atScan.muxes[k].arr[j] = old => muxes[k].arr[j] = new
    /\ \A b \in DOMAIN phis : \A j \in DOMAIN phis[b].args :
          atScan.phis[b].args[j] = old => phis[b].args[j] = new

(* C4 as claimed: a phi whose operands are all V when phase B scans it is   *)
(* gone at the end of the run and every slot that held its result holds V;  *)
(* a phi with two or more distinct operands is still there.                *)
C4_ElisionAsClaimed ==
    pc = "done" =>
        \A b \in DOMAIN atScan.phis :
            IF Trivial(atScan.phis[b])
            THEN /\ b \notin DOMAIN phis
                 /\ SlotsNow(<<"phi", b>>, TheValue(atScan.phis[b]))
            ELSE b \in DOMAIN phis

(* What the iterations i..Len(elide_phis) of the loop of lines 87-97 turn a *)
(* slot holding v into.                                                    *)
RECURSIVE Redirected(_, _)
Redirected(v, i) ==
    IF i > Len(elide_phis) THEN v
    ELSE Redirected(IF v = <<"phi", elide_phis[i][1]>> THEN elide_phis[i][2] ELSE v, i + 1)

ElidedAt(b) == CHOOSE i \in DOMAIN elide_phis : elide_phis[i][1] = b

(* C4 amended: as claimed, except that a slot that held the phi's result    *)
(* holds V, or, when V is the result of a phi elided later in the same run, *)
(* the value that later elision redirected V to.                           *)
C4_Elision ==
    pc = "done" =>
        \A b \in DOMAIN atScan.phis :
            IF Trivial(atScan.phis[b])
            THEN /\ b \notin DOMAIN phis
                 /\ b \in {elide_phis[i][1] : i \in DOMAIN elide_phis}
                 /\ SlotsNow(<<"phi", b>>,
                             Redirected(TheValue(atScan.phis[b]), ElidedAt(b) + 1))
            ELSE b \in DOMAIN phis

(* A run that elided a phi whose single operand value was the result of a   *)
(* phi elided after it: the user of the first now reads what the second     *)
(* was replaced with.                                                      *)
C4_Witness ==
    /\ pc = "done"
    /\ \E i, j \in DOMAIN elide_phis :
          /\ i < j
          /\ elide_phis[i][2] = <<"phi", elide_phis[j][1]>>
          /\ users[elide_phis[i][1]] = elide_phis[j][2]

Covers(i) ==
    /\ Len(phi_ways[i][2]) >= 2
    /\ Range(phis0[phi_ways[i][1]].args) \subseteq {w.v : w \in Range(phi_ways[i][2])}

(* C5: a phi whose way-list (of two or more ways) covers all its operand    *)
(* values is rewritten to the discriminator in phase A and removed in phase *)
(* B, its user then reads the select inserted before it, whose array holds  *)
(* the value for C false first and the value for C true second, and the run *)
(* returns true.                                                           *)
C5_CoveredPhiBecomesSelect ==
    pc \in {"done", "panic"} =>
        \A i \in DOMAIN phi_ways :
            Covers(i) =>
                LET b == phi_ways[i][1]
                IN  /\ pc = "done"
                    /\ modified
                    /\ b \notin DOMAIN phis
                    /\ users[b] = discs[i]
                    /\ users[b][1] = "mux"
                    /\ muxes[users[b][2]].at = b
                    /\ \A w \in Range(phi_ways[i][2]) :
                          /\ w.conds = <<Neg(muxes[users[b][2]].sel)>>
                                => muxes[users[b][2]].arr[1] = w.v
                          /\ w.conds = <<Pos(muxes[users[b][2]].sel)>>
                                => muxes[users[b][2]].arr[2] = w.v

(* Whether v is defined where control reaches the point before the phi of   *)
(* block b: k is the position of the mux reading it.                       *)
AvailableBefore(v, b, k) ==
    CASE v[1] \in {"a", "c"} -> TRUE
      [] v[1] \in {"d", "phi"} -> v[2] # b /\ v[2] \in Dominators(term, b)
      [] v[1] = "mux" -> v[2] < k /\ muxes[v[2]].at \in Dominators(term, b)
      [] OTHER -> FALSE

(* C7: every candidate value in the array of an inserted mux is defined in  *)
(* a block that dominates the phi's block, or earlier in that block.       *)
C7_CandidatesDominate ==
    pc = "discriminate" =>
        \A k \in DOMAIN muxes :
            \A j \in 1..2 : AvailableBefore(muxes[k].arr[j], muxes[k].at, k)

Mentions(w, v) == \E c \in Range(w.conds) : c.v = v

(* Every call build_discriminator makes on ways, itself included, with      *)
(* more than one way picks a discriminator every way mentions. The call on  *)
(* the true group is made only when the one on the false group returned.   *)
RECURSIVE AllMention(_)
AllMention(ways) ==
    \/ Len(ways) <= 1
    \/ TableKeys(ways) = {}
    \/ \A disc \in Discriminators(ways) :
          /\ \A w \in Range(ways) : Mentions(w, disc)
          /\ TableUses(ways, disc) = Len(ways)
          /\ AllMention(MuxWays(ways, Neg(disc)))
          /\ (\E f \in BuildDiscriminator(MuxWays(ways, Neg(disc)), <<>>, 0) : f.ok)
                => AllMention(MuxWays(ways, Pos(disc)))

(* C8: in every call of build_discriminator with more than one way, the     *)
(* chosen discriminator is mentioned by every way.                         *)
C8_DiscriminatorInEveryWay ==
    (pc = "discriminate" /\ Len(discs) < Len(phi_ways)) =>
        AllMention(phi_ways[Len(discs) + 1][2])

(* The paths from..to of distinct blocks, as sequences of blocks. *)
RECURSIVE SimplePaths(_, _, _)
SimplePaths(t, path, to) ==
    IF path[Len(path)] = to THEN {path}
    ELSE UNION {SimplePaths(t, Append(path, x), to) :
                   x \in Succ(t, path[Len(path)]) \ Range(path)}

RouteAlong(t, path) ==
    Flatten([i \in 1..(Len(path) - 1) |-> EdgeCond(t, path[i], path[i + 1])])

AcyclicRoutes(t, target, from, to) ==
    {RouteAlong(t, path) :
        path \in {q \in SimplePaths(t, <<target>>, to) : q[Len(q) - 1] = from}}

(* C9: every route justify_edge returns for an edge P -> B of a phi is the  *)
(* conjunction of the edge conditions along a path R .. P, B on which no    *)
(* block occurs twice.                                                     *)
C9_RoutesAcyclic ==
    (pc = "discriminate" /\ discs = <<>>) =>
        \A b \in DOMAIN phis :
            ImmDom(term, numbers, b) # 0 =>
                \A p \in Range(phis[b].blocks) :
                    Range(JustifyEdge(term, p, b, ImmDom(term, numbers, b), <<>>).routes)
                        \subseteq AcyclicRoutes(term, ImmDom(term, numbers, b), p, b)

(* C10: at return no operand of an instruction left in the function refers *)
(* to the result of a phi the run removed.                                 *)
C10_NoUseOfRemoved ==
    pc = "done" =>
        \A b \in DOMAIN phis0 \ DOMAIN phis :
            ~HasUses(phis, users, muxes, <<"phi", b>>)

(* C6 as claimed: when BlockNumbering::new returns, the entry block has     *)
(* number 0 and number(target) <= number(source) + 1 for every successor    *)
(* edge of a visited block.                                                *)
C6_MonotoneAsClaimed ==
    pending = {} =>
        /\ numbers[Entry] = 0
        /\ \A b \in done : \A x \in Succ(term, b) : numbers[x] <= numbers[b] + 1

(* C6 amended: the entry block has number 0 and every other numbered block  *)
(* has a visited predecessor whose number is exactly one less: the bound    *)
(* holds for the edge that assigned the number.                            *)
C6_Monotone ==
    pending = {} =>
        /\ numbers[Entry] = 0
        /\ \A x \in DOMAIN numbers \ {Entry} :
              \E b \in Pred(term, x) \cap done : numbers[x] = numbers[b] + 1

(* Numbering is complete and some inspected edge skips more than one level. *)
C6_Witness ==
    /\ pending = {}
    /\ \E b \in done : \E x \in Succ(term, b) : numbers[x] > numbers[b] + 1

=============================================================================
